---- MODULE Spec2Model ----
(***************************************************************************)
(* Model of relay.py: the TTN -> API/InfluxDB relay of the water sensor    *)
(* project.  One MQTT worker (loop_forever) delivers messages to           *)
(* on_message, which calls handle_message.                                 *)
(*                                                                         *)
(* Representation:                                                         *)
(*   - an Optional value is a sequence: <<>> is None, <<v>> is the value v;*)
(*   - the envelope (parsed JSON tree) is the set of keys it carries plus  *)
(*     the values the handler reads (dev_eui, f_port, rx_metadata, ...);   *)
(*   - frm_payload is the byte string the base64 text stands for;          *)
(*   - a topic is its sequence of MQTT levels (the parts between '/');     *)
(*   - a reading is a float32 bit pattern (V1) or the quotient num/den of  *)
(*     two integers (V2).                                                  *)
(***************************************************************************)
EXTENDS Integers, Sequences, FiniteSets, TLC

VARIABLES
    subscribed,       \* on_connect has subscribed to '#'
    running,          \* loop_forever is still running
    SENSOR_MAPPINGS,  \* module-level dict DevEUI -> sensor id
    msg,              \* Optional: the message last handed to on_message
    outcome,          \* how handle_message ended for that message
    exception,        \* the exception that left handle_message ("" if none)
    summary,          \* locals max_rssi, max_snr, best_gateway_id
    measurements,     \* the Measurements object of the call
    decodeAttempted,  \* the payload decode (line 227 onwards) was entered
    calls,            \* sink calls made for that message, in order
    served            \* on_message has returned to loop_forever before

vars == <<subscribed, running, SENSOR_MAPPINGS, msg, outcome, exception,
          summary, measurements, decodeAttempted, calls, served>>

(***************************************************************************)
(* Bounds of the model                                                     *)
(***************************************************************************)
MaxGateways == 3
MaxBody == 16

(***************************************************************************)
(* Program constants                                                       *)
(***************************************************************************)
FPORT_FORMAT_V1 == 1
FPORT_FORMAT_V2 == 2
SUPPORTED_FPORTS == {FPORT_FORMAT_V1, FPORT_FORMAT_V2}

DM_BIT_T_WATER == 1
DM_BIT_T_INSIDE == 2
DM_BIT_RH_INSIDE == 4
DM_BIT_V_SUPPLY == 8

None == <<>>
Some(v) == <<v>>
IsNone(o) == o = <<>>
Val(o) == o[1]

\* Measurements(): all four readings default to None.
Measurements == [t_water |-> None, t_inside |-> None,
                 rh_inside |-> None, v_supply |-> None]

NoSummary == [max_rssi |-> None, max_snr |-> None, best_gateway_id |-> None]

\* Python's x & bit for a single-bit constant
BitAnd(x, bit) == ((x \div bit) % 2) * bit


(***************************************************************************)
(* Inputs: the messages the broker can deliver                             *)
(***************************************************************************)
\* Keys of an uplink in the current (v3) shape, as handle_message reads them
CurrentKeys == {"end_device_ids", "dev_addr", "uplink_message", "f_port",
                "spreading_factor", "bandwidth", "frequency",
                "consumed_airtime", "rx_metadata", "frm_payload"}
\* Keys of an uplink in the legacy (v2) shape
LegacyKeys == {"dev_id", "hardware_serial", "payload_raw", "metadata"}
\* A non-uplink event (join, downlink ack): identity only
EventKeys == {"end_device_ids", "dev_addr"}

Envelopes == {CurrentKeys, LegacyKeys, EventKeys,
              CurrentKeys \ {"dev_addr"},
              CurrentKeys \ {"spreading_factor"},
              CurrentKeys \ {"bandwidth"},
              CurrentKeys \ {"frequency"}}

UpTopic == <<"v3", "app@ttn", "devices", "dev1", "up">>
Topics == {UpTopic,
           <<"v3", "app@ttn", "devices", "dev1", "join">>,
           <<"v3", "app@ttn", "devices", "dev1", "down", "sent">>}

MappedEui1 == "0004A30B001F21FA"
MappedEui2 == "0004A30B001F1234"
UnmappedEui == "0004A30B00FFFFFF"
DevEuis == {MappedEui1, MappedEui2, UnmappedEui}
\* SENSOR_MAPPINGS as parsed from the environment at start-up
ConfiguredMappings ==
    [e \in {MappedEui1, MappedEui2} |-> IF e = MappedEui1 THEN 1 ELSE 7]

FPorts == {1, 2, 3}

\* Signal values a gateway report can carry (rssi, snr), each Optional
Signals == {[rssi |-> Some(-80), snr |-> Some(5)],
            [rssi |-> Some(-60), snr |-> Some(9)],
            [rssi |-> Some(-60), snr |-> Some(3)],
            [rssi |-> Some(-50), snr |-> None],
            [rssi |-> None, snr |-> Some(12)]}

\* rx_metadata built from a sequence of signals; the i-th report comes from
\* gateway i
RxMetadata(sigs) ==
    [i \in 1..Len(sigs) |->
        [gateway_id |-> i, rssi |-> sigs[i].rssi, snr |-> sigs[i].snr]]

SeqsUpTo(S, n) == UNION {[1..k -> S] : k \in 0..n}

AllRxMetadata == {RxMetadata(sigs) : sigs \in SeqsUpTo(Signals, MaxGateways)}

GoodRx == RxMetadata(<<[rssi |-> Some(-80), snr |-> Some(5)]>>)
NoSnrRx == RxMetadata(<<[rssi |-> Some(-50), snr |-> None]>>)
FewRxMetadata == {<<>>, GoodRx, NoSnrRx}

\* Payload bytes: a head byte followed by n body bytes a+b, a+2b, ...
HeadBytes == (0..15) \cup {16, 245}
BodyPatterns == {<<0, 0>>, <<255, 0>>, <<18, 53>>}
Body(n, p) == [i \in 1..n |-> (p[1] + p[2] * i) % 256]
AllPayloads == {<<>>} \cup
    {<<h>> \o Body(n, p) : h \in HeadBytes, n \in 0..MaxBody, p \in BodyPatterns}
FewPayloads == {<<>>,
                <<1>> \o Body(15, <<18, 53>>),   \* 16 bytes: a V1 frame
                <<1>> \o Body(14, <<18, 53>>),   \* 15 bytes
                <<1>> \o Body(2, <<18, 53>>),    \* V2 water temperature
                <<14>> \o Body(6, <<18, 53>>),   \* V2 without water temperature
                <<15>> \o Body(7, <<18, 53>>),   \* V2 all four
                <<15>> \o Body(6, <<18, 53>>)}   \* V2 truncated

Message(t, k, e, f, p, rx) ==
    [topic |-> t, keys |-> k, device_id |-> "dev1", dev_eui |-> e,
     f_port |-> f, spreading_factor |-> 7, bandwidth |-> 125000,
     frm_payload |-> p, rx_metadata |-> rx]

\* envelope and direction variety, a few payloads and gateway lists
PipelineMessages ==
    {Message(t, k, e, f, p, rx) : t \in Topics, k \in Envelopes, e \in DevEuis,
        f \in FPorts, p \in FewPayloads, rx \in FewRxMetadata}
\* payload variety
DecodeMessages ==
    {Message(UpTopic, CurrentKeys, e, f, p, rx) : e \in {MappedEui1, UnmappedEui},
        f \in FPorts, p \in AllPayloads, rx \in {<<>>, GoodRx}}
\* gateway variety
GatewayMessages ==
    {Message(UpTopic, CurrentKeys, MappedEui2, f, <<14>> \o Body(6, <<18, 53>>), rx) :
        f \in {2, 3}, rx \in AllRxMetadata}

Messages == PipelineMessages \cup DecodeMessages \cup GatewayMessages

\* One V2 field alone in a frame, sweeping its raw value: 12-bit fields are
\* padded to two bytes with four low zero bits
Frame12(mask, raw) == <<mask, raw \div 16, (raw % 16) * 16>>
Frame16(mask, raw) == <<mask, raw \div 256, raw % 256>>
\* the high bytes swept for a 16-bit field (every low byte goes with each)
HighBytes == {0, 1, 127, 128, 254, 255}
FieldFrames(mask) ==
    IF mask \in {1, 8} THEN {Frame12(mask, raw) : raw \in 0..4095}
    ELSE {Frame16(mask, 256 * hi + lo) : hi \in HighBytes, lo \in 0..255}
\* the frames of version v: every single-field V2 frame, or the 16-byte V1
\* frames
SweepMessages(v) ==
    {Message(UpTopic, CurrentKeys, MappedEui1, v, p, GoodRx) :
        p \in IF v = 2 THEN UNION {FieldFrames(mask) : mask \in {1, 2, 4, 8}}
              ELSE {q \in AllPayloads : Len(q) = 16}}

\* What the sinks' back ends can answer
ApiResults == {"201", "500", "raise"}
InfluxResults == {"ok", "raise"}

(***************************************************************************)
(* Gateway aggregation (lines 193-209)                                     *)
(***************************************************************************)
\* gateways = [g for g in rx_metadata if rssi is not None and snr is not None]
QualifyingGateways(rx) ==
    LET Both(g) == ~IsNone(g.rssi) /\ ~IsNone(g.snr)
    IN  SelectSeq(rx, Both)

RECURSIVE MaxOf(_)
\* max() of a non-empty list of numbers
MaxOf(s) ==
    IF Len(s) = 1 THEN s[1]
    ELSE LET m == MaxOf(Tail(s)) IN IF s[1] >= m THEN s[1] ELSE m

\* as MaxOrNone, but an empty list gives 0 (max(xs, default=0))
MaxOrZero(s) == IF Len(s) > 0 THEN Some(MaxOf(s)) ELSE Some(0)

\* max(xs) if len(xs) > 0 else None
MaxOrNone(s) == IF Len(s) > 0 THEN Some(MaxOf(s)) ELSE None

\* as InsertByRssi, but an equal rssi goes ahead of those already placed: the
\* sort is no longer stable
InsertByRssiUnstable(sorted, g) ==
    LET ahead == {i \in 1..Len(sorted) : Val(sorted[i].rssi) > Val(g.rssi)}
        n == Cardinality(ahead)
    IN  SubSeq(sorted, 1, n) \o <<g>> \o SubSeq(sorted, n + 1, Len(sorted))

\* One step of a stable descending sort: g goes behind every report already
\* placed whose rssi is at least its own
InsertByRssi(sorted, g) ==
    LET ahead == {i \in 1..Len(sorted) : Val(sorted[i].rssi) >= Val(g.rssi)}
        n == Cardinality(ahead)
    IN  SubSeq(sorted, 1, n) \o <<g>> \o SubSeq(sorted, n + 1, Len(sorted))

RECURSIVE SortedByRssi(_)
\* sorted(gateways, key=lambda g: g['rssi'], reverse=True): stable, so reports
\* of equal rssi keep their original order
SortedByRssi(gws) ==
    IF Len(gws) = 0 THEN <<>>
    ELSE InsertByRssi(SortedByRssi(SubSeq(gws, 1, Len(gws) - 1)), gws[Len(gws)])

(***************************************************************************)
(* Payload decoding (lines 229-296)                                        *)
(***************************************************************************)
RECURSIVE Pow2(_)
Pow2(n) == IF n = 0 THEN 1 ELSE 2 * Pow2(n - 1)

\* struct.unpack('<f', ...): the float32 whose little-endian bytes are
\* b[off+1..off+4], kept as its bit pattern, most significant byte first
Float32LE(b, off) ==
    [repr |-> "float32",
     bits |-> <<b[off + 4], b[off + 3], b[off + 2], b[off + 1]>>]

\* struct.unpack('<ffff', bytestring): struct.error unless exactly 16 bytes
StructUnpackV1(b) ==
    IF Len(b) # 16 THEN [error |-> TRUE, values |-> <<>>]
    ELSE [error |-> FALSE,
          values |-> <<Float32LE(b, 0), Float32LE(b, 4),
                       Float32LE(b, 8), Float32LE(b, 12)>>]

\* the widths of the bitstruct format '>' + 'u12' / 'u16' / 'u16' / 'u12'
BitstructFmt(data_mask) ==
    (IF BitAnd(data_mask, DM_BIT_T_WATER) # 0 THEN <<12>> ELSE <<>>)
    \o (IF BitAnd(data_mask, DM_BIT_T_INSIDE) # 0 THEN <<16>> ELSE <<>>)
    \o (IF BitAnd(data_mask, DM_BIT_RH_INSIDE) # 0 THEN <<16>> ELSE <<>>)
    \o (IF BitAnd(data_mask, DM_BIT_V_SUPPLY) # 0 THEN <<12>> ELSE <<>>)

\* bit k (0-based, most significant bit of the first byte first) of data
BitAt(data, k) == (data[(k \div 8) + 1] \div Pow2(7 - (k % 8))) % 2

RECURSIVE UIntAt(_, _, _)
\* the unsigned big-endian integer in bits off .. off+w-1
UIntAt(data, off, w) ==
    IF w = 0 THEN 0
    ELSE 2 * UIntAt(data, off, w - 1) + BitAt(data, off + w - 1)

RECURSIVE SumSeq(_)
SumSeq(s) == IF Len(s) = 0 THEN 0 ELSE s[1] + SumSeq(Tail(s))

\* bitstruct.unpack(fmt, data): Error when data has fewer bits than the
\* format needs; surplus bits are ignored
BitstructUnpack(fmt, data) ==
    IF SumSeq(fmt) > 8 * Len(data) THEN [error |-> TRUE, values |-> <<>>]
    ELSE [error |-> FALSE,
          values |-> [i \in 1..Len(fmt) |->
                        UIntAt(data, SumSeq(SubSeq(fmt, 1, i - 1)), fmt[i])]]

\* as Quotient, but with Python's floor division (//)
QuotientFloor(n, d) == [repr |-> "quotient", num |-> n \div d, den |-> 1]

\* n / d, true division
Quotient(n, d) == [repr |-> "quotient", num |-> n, den |-> d]

\* as ConvertV2, but index is never advanced: every field reads raw_values[0]
ConvertV2IndexStuck(data_mask, raw_values) ==
    [t_water |-> IF BitAnd(data_mask, DM_BIT_T_WATER) # 0
                   THEN Some(Quotient(raw_values[1], 16)) ELSE None,
     t_inside |-> IF BitAnd(data_mask, DM_BIT_T_INSIDE) # 0
                    THEN Some(Quotient(175 * raw_values[1] - 45 * 65536, 65536))
                    ELSE None,
     rh_inside |-> IF BitAnd(data_mask, DM_BIT_RH_INSIDE) # 0
                     THEN Some(Quotient(100 * raw_values[1], 65536)) ELSE None,
     v_supply |-> IF BitAnd(data_mask, DM_BIT_V_SUPPLY) # 0
                    THEN Some(Quotient(raw_values[1] + 2000, 1000)) ELSE None]

\* lines 279-296: raw values to physical units, index walking raw_values
ConvertV2(data_mask, raw_values) ==
    LET hasW == BitAnd(data_mask, DM_BIT_T_WATER) # 0
        hasT == BitAnd(data_mask, DM_BIT_T_INSIDE) # 0
        hasH == BitAnd(data_mask, DM_BIT_RH_INSIDE) # 0
        hasV == BitAnd(data_mask, DM_BIT_V_SUPPLY) # 0
        iW == 1
        iT == iW + (IF hasW THEN 1 ELSE 0)
        iH == iT + (IF hasT THEN 1 ELSE 0)
        iV == iH + (IF hasH THEN 1 ELSE 0)
    IN  [t_water |-> IF hasW THEN Some(Quotient(raw_values[iW], 16)) ELSE None,
         t_inside |-> IF hasT
                        THEN Some(Quotient(175 * raw_values[iT] - 45 * 65536, 65536))
                        ELSE None,
         rh_inside |-> IF hasH THEN Some(Quotient(100 * raw_values[iH], 65536))
                         ELSE None,
         v_supply |-> IF hasV THEN Some(Quotient(raw_values[iV] + 2000, 1000))
                        ELSE None]

\* The decode branch of handle_message for a supported fport.
\* status: "ok", "decode_error" (caught, handler returns) or "IndexError"
\* (bytestring[0] of an empty V2 payload, not caught)
DecodePayload(fport, bytestring) ==
    IF fport = FPORT_FORMAT_V1
    THEN LET u == StructUnpackV1(bytestring)
         IN  IF u.error
             THEN [status |-> "decode_error", protocol_version |-> "v1",
                   measurements |-> Measurements]
             ELSE [status |-> "ok", protocol_version |-> "v1",
                   measurements |-> [t_water |-> Some(u.values[1]),
                                     t_inside |-> Some(u.values[2]),
                                     rh_inside |-> Some(u.values[3]),
                                     v_supply |-> Some(u.values[4])]]
    ELSE IF Len(bytestring) = 0
         THEN [status |-> "IndexError", protocol_version |-> "v2",
               measurements |-> Measurements]
         ELSE LET data_mask == bytestring[1]
                  data == Tail(bytestring)
                  u == BitstructUnpack(BitstructFmt(data_mask), data)
              IN  IF u.error
                  THEN [status |-> "decode_error", protocol_version |-> "v2",
                        measurements |-> Measurements]
                  ELSE [status |-> "ok", protocol_version |-> "v2",
                        measurements |-> ConvertV2(data_mask, u.values)]

(***************************************************************************)
(* Sinks                                                                   *)
(***************************************************************************)
\* send_to_api: one POST of {sensor_id, temperature}; the attributes are not
\* sent.  temperature is passed as it is held (an Optional); res is what
\* requests.post does: a status code, or "raise"
send_to_api(sensor_id, temperature, attributes, res) ==
    [sink |-> "send_to_api",
     args |-> [sensor_id |-> sensor_id, temperature |-> temperature,
               attributes |-> attributes],
     sent |-> [sensor_id |-> sensor_id, temperature |-> temperature],
     result |-> res]

\* log_to_influxdb: one write_points of measurement 'temperature'
log_to_influxdb(fields, tags, res) ==
    [sink |-> "log_to_influxdb",
     args |-> [fields |-> fields, tags |-> tags],
     sent |-> [measurement |-> "temperature", tags |-> tags, fields |-> fields],
     result |-> res]

(***************************************************************************)
(* handle_message (lines 153-353)                                          *)
(***************************************************************************)
\* topic.endswith('/up')
EndsWithUp(topic) == Len(topic) >= 2 /\ topic[Len(topic)] = "up"

Result(o, e, s, m, d, c) ==
    [outcome |-> o, exception |-> e, summary |-> s, measurements |-> m,
     decodeAttempted |-> d, calls |-> c]

\* line 313: SENSOR_MAPPINGS.get(dev_eui)
LookupSensor(mappings, dev_eui) ==
    IF dev_eui \in DOMAIN mappings THEN Some(mappings[dev_eui]) ELSE None

\* as SinkCalls, but the metrics write is made before the API call
SinkCallsMetricsFirst(apiCalls, influx) == <<influx>> \o apiCalls

\* lines 318-351: the API call, if any, then the InfluxDB write
SinkCalls(apiCalls, influx) == apiCalls \o <<influx>>

\* as ShouldSendToApi, but any reading at all triggers the API call
ShouldSendToApiAnyReading(meas) ==
    ~(IsNone(meas.t_water) /\ IsNone(meas.t_inside)
      /\ IsNone(meas.rh_inside) /\ IsNone(meas.v_supply))

\* line 319: if measurements.t_water is not None
ShouldSendToApi(meas) == ~IsNone(meas.t_water)

\* lines 312-351: sensor lookup and the two sinks
FanOut(m, mappings, s, dec, apiRes, dbRes) ==
    LET meas == dec.measurements
        sensor_id == LookupSensor(mappings, m.dev_eui)
        api == send_to_api(Val(sensor_id), meas.t_water,
                   [enclosure_temp |-> meas.t_inside,
                    enclosure_humi |-> meas.rh_inside,
                    voltage |-> meas.v_supply,
                    protocol_version |-> dec.protocol_version], apiRes)
        apiCalls == IF ShouldSendToApi(meas) THEN <<api>> ELSE <<>>
        fields == [max_rssi |-> s.max_rssi, max_snr |-> s.max_snr,
                   water_temp |-> meas.t_water,
                   enclosure_temp |-> meas.t_inside,
                   enclosure_humi |-> meas.rh_inside,
                   voltage |-> meas.v_supply]
        tags == [sensor_id |-> Val(sensor_id), dev_id |-> m.device_id,
                 dev_eui |-> m.dev_eui, sf |-> m.spreading_factor,
                 bw |-> m.bandwidth \div 1000,
                 best_gateway |-> Val(s.best_gateway_id),
                 protocol_version |-> dec.protocol_version]
        influx == log_to_influxdb(fields, tags, dbRes)
    IN  IF IsNone(sensor_id)
        THEN Result("unmapped_sensor", "", s, meas, TRUE, <<>>)
        ELSE IF ShouldSendToApi(meas) /\ apiRes = "raise"
        THEN Result("raised", "ConnectionError", s, meas, TRUE, apiCalls)
        ELSE IF dbRes = "raise"
        THEN Result("raised", "InfluxDBError", s, meas, TRUE,
                    SinkCalls(apiCalls, influx))
        ELSE Result("fanned_out", "", s, meas, TRUE,
                    SinkCalls(apiCalls, influx))

\* The whole of handle_message for message m, given what the two back ends
\* answer if they are called
HandleMessage(m, mappings, apiRes, dbRes) ==
    LET gateways == QualifyingGateways(m.rx_metadata)
        all_rssi == [i \in 1..Len(gateways) |-> Val(gateways[i].rssi)]
        all_snr == [i \in 1..Len(gateways) |-> Val(gateways[i].snr)]
        max_rssi == MaxOrNone(all_rssi)
        max_snr == MaxOrNone(all_snr)
        best_gateway == SortedByRssi(gateways)[1]
        s0 == [max_rssi |-> max_rssi, max_snr |-> max_snr,
               best_gateway_id |-> None]
        s == [s0 EXCEPT !.best_gateway_id = Some(best_gateway.gateway_id)]
        dec == DecodePayload(m.f_port, m.frm_payload)
    IN  \* lines 155-158: identity of the current shape
        IF ~({"end_device_ids", "dev_addr"} \subseteq m.keys)
        THEN Result("raised", "KeyError", NoSummary, Measurements, FALSE, <<>>)
        \* lines 166-168
        ELSE IF ~EndsWithUp(m.topic)
        THEN Result("not_uplink", "", NoSummary, Measurements, FALSE, <<>>)
        \* lines 171-185: uplink and its metadata
        ELSE IF ~({"uplink_message", "f_port", "spreading_factor", "bandwidth",
                   "frequency", "consumed_airtime", "rx_metadata"}
                     \subseteq m.keys)
        THEN Result("raised", "KeyError", NoSummary, Measurements, FALSE, <<>>)
        \* line 208: [0] of an empty list
        ELSE IF Len(gateways) = 0
        THEN Result("raised", "IndexError", s0, Measurements, FALSE, <<>>)
        \* line 215
        ELSE IF "frm_payload" \notin m.keys
        THEN Result("raised", "KeyError", s, Measurements, FALSE, <<>>)
        \* lines 218-221
        ELSE IF m.f_port \notin SUPPORTED_FPORTS
        THEN Result("unsupported_fport", "", s, Measurements, FALSE, <<>>)
        \* lines 227-296
        ELSE IF dec.status = "IndexError"
        THEN Result("raised", "IndexError", s, Measurements, TRUE, <<>>)
        ELSE IF dec.status = "decode_error"
        THEN Result("decode_error", "", s, Measurements, TRUE, <<>>)
        ELSE FanOut(m, mappings, s, dec, apiRes, dbRes)

(***************************************************************************)
(* The worker                                                              *)
(***************************************************************************)
Init ==
    /\ subscribed = FALSE
    /\ running = TRUE
    /\ SENSOR_MAPPINGS = ConfiguredMappings
    /\ msg = None
    /\ outcome = "none"
    /\ exception = ""
    /\ summary = NoSummary
    /\ measurements = Measurements
    /\ decodeAttempted = FALSE
    /\ calls = <<>>
    /\ served = FALSE

\* on_connect: subscribe to '#' when the broker accepted the connection
on_connect(rc) ==
    /\ running
    /\ subscribed' = (subscribed \/ rc = 0)
    /\ UNCHANGED <<running, SENSOR_MAPPINGS, msg, outcome, exception, summary,
                   measurements, decodeAttempted, calls, served>>

\* as Deliver, but handle_message remembers an unknown DevEUI as sensor 0
DeliverLearning(S, A, D) ==
    /\ running
    /\ subscribed
    /\ IsNone(msg)
    /\ \E m \in S, apiRes \in A, dbRes \in D :
         \E r \in {HandleMessage(m, SENSOR_MAPPINGS, apiRes, dbRes)} :
           /\ msg' = Some(m)
           /\ outcome' = r.outcome
           /\ exception' = r.exception
           /\ summary' = r.summary
           /\ measurements' = r.measurements
           /\ decodeAttempted' = r.decodeAttempted
           /\ calls' = r.calls
           /\ running' = (r.outcome # "raised")
           /\ SENSOR_MAPPINGS' =
                IF r.outcome = "unmapped_sensor"
                THEN [e \in DOMAIN SENSOR_MAPPINGS \cup {m.dev_eui} |->
                        IF e \in DOMAIN SENSOR_MAPPINGS
                        THEN SENSOR_MAPPINGS[e] ELSE 0]
                ELSE SENSOR_MAPPINGS
    /\ UNCHANGED <<subscribed, served>>

\* on_message for a message of S, with back ends answering from A and D:
\* handle one delivered message; the variables keep what the call did until
\* the call's frame is dropped.  An exception that leaves handle_message
\* leaves on_message and loop_forever as well
Deliver(S, A, D) ==
    /\ running
    /\ subscribed
    /\ IsNone(msg)
    /\ \E m \in S, apiRes \in A, dbRes \in D :
         \E r \in {HandleMessage(m, SENSOR_MAPPINGS, apiRes, dbRes)} :
           /\ msg' = Some(m)
           /\ outcome' = r.outcome
           /\ exception' = r.exception
           /\ summary' = r.summary
           /\ measurements' = r.measurements
           /\ decodeAttempted' = r.decodeAttempted
           /\ calls' = r.calls
           /\ running' = (r.outcome # "raised")
    /\ UNCHANGED <<subscribed, SENSOR_MAPPINGS, served>>

on_message == Deliver(Messages, ApiResults, InfluxResults)

\* loop_forever: on_message has returned; its locals are gone and the loop
\* waits for the next message
loop_forever ==
    /\ running
    /\ ~IsNone(msg)
    /\ msg' = None
    /\ outcome' = "none"
    /\ exception' = ""
    /\ summary' = NoSummary
    /\ measurements' = Measurements
    /\ decodeAttempted' = FALSE
    /\ calls' = <<>>
    /\ served' = TRUE
    /\ UNCHANGED <<subscribed, running, SENSOR_MAPPINGS>>

Next ==
    \/ \E rc \in 0..5 : on_connect(rc)
    \/ on_message
    \/ loop_forever

Spec == Init /\ [][Next]_vars

\* The same worker fed with the frames that sweep the raw values of each
\* V2 field, the back ends answering normally
on_message_swept ==
    \E v \in SUPPORTED_FPORTS : Deliver(SweepMessages(v), {"201"}, {"ok"})

NextSwept ==
    \/ \E rc \in 0..5 : on_connect(rc)
    \/ on_message_swept
    \/ loop_forever

SpecSwept == Init /\ [][NextSwept]_vars

(***************************************************************************)
(* Vocabulary of the properties, stated on the message alone               *)
(***************************************************************************)
Handled == ~IsNone(msg)
M == Val(msg)

\* a complete uplink of the current shape, on an uplink topic
WellFormedUplink(m) == m.keys = CurrentKeys /\ EndsWithUp(m.topic)

QualifyingIndices(m) ==
    {i \in DOMAIN m.rx_metadata :
        ~IsNone(m.rx_metadata[i].rssi) /\ ~IsNone(m.rx_metadata[i].snr)}

MaskHas(mask, k) == (mask \div Pow2(k)) % 2 = 1
NeedBits(mask) ==
    (IF MaskHas(mask, 0) THEN 12 ELSE 0) + (IF MaskHas(mask, 1) THEN 16 ELSE 0)
    + (IF MaskHas(mask, 2) THEN 16 ELSE 0) + (IF MaskHas(mask, 3) THEN 12 ELSE 0)
NeedBytes(mask) == (NeedBits(mask) + 7) \div 8

\* the payload is one its format accepts
PayloadDecodes(m) ==
    \/ m.f_port = 1 /\ Len(m.frm_payload) = 16
    \/ /\ m.f_port = 2
       /\ Len(m.frm_payload) >= 1
       /\ Len(m.frm_payload) - 1 >= NeedBytes(m.frm_payload[1])

CallsTo(name) == {i \in 1..Len(calls) : calls[i].sink = name}

\* nibble k (0-based, high nibble of the first byte first) of data
Nibble(data, k) ==
    IF k % 2 = 0 THEN data[(k \div 2) + 1] \div 16 ELSE data[(k \div 2) + 1] % 16
U12(data, k) == 256 * Nibble(data, k) + 16 * Nibble(data, k + 1) + Nibble(data, k + 2)
U16(data, k) == 4096 * Nibble(data, k) + 256 * Nibble(data, k + 1)
                + 16 * Nibble(data, k + 2) + Nibble(data, k + 3)

\* The Measurement a V2 frame with this mask and these data bytes stands for
ExpectedV2(mask, data) ==
    LET kT == IF MaskHas(mask, 0) THEN 3 ELSE 0
        kH == kT + (IF MaskHas(mask, 1) THEN 4 ELSE 0)
        kV == kH + (IF MaskHas(mask, 2) THEN 4 ELSE 0)
    IN  [t_water |-> IF MaskHas(mask, 0)
                       THEN <<[repr |-> "quotient", num |-> U12(data, 0),
                               den |-> 16]>>
                       ELSE <<>>,
         t_inside |-> IF MaskHas(mask, 1)
                        THEN <<[repr |-> "quotient",
                                num |-> 175 * U16(data, kT) - 2949120,
                                den |-> 65536]>>
                        ELSE <<>>,
         rh_inside |-> IF MaskHas(mask, 2)
                         THEN <<[repr |-> "quotient", num |-> 100 * U16(data, kH),
                                 den |-> 65536]>>
                         ELSE <<>>,
         v_supply |-> IF MaskHas(mask, 3)
                        THEN <<[repr |-> "quotient", num |-> U12(data, kV) + 2000,
                                den |-> 1000]>>
                        ELSE <<>>]

(***************************************************************************)
(* Properties                                                              *)
(***************************************************************************)

\* C1: every uplink with a supported fport, a payload that decodes and a
\* mapped DevEUI gets exactly one metrics write, whether or not it carries a
\* water temperature; for a V2 mask without the water bit that write has no
\* water_temp field.
C1_MetricsWriteWhenMapped ==
    (/\ Handled
     /\ WellFormedUplink(M)
     /\ M.f_port \in {1, 2}
     /\ PayloadDecodes(M)
     /\ M.dev_eui \in DOMAIN SENSOR_MAPPINGS)
    => /\ Cardinality(CallsTo("log_to_influxdb")) = 1
       /\ (M.f_port = 2 /\ ~MaskHas(M.frm_payload[1], 0))
            => \A i \in CallsTo("log_to_influxdb") :
                  IsNone(calls[i].sent.fields.water_temp)

\* C2: the Temperature API is called only for a message whose decoded
\* Measurement has a water temperature, with the mapped sensor id and that
\* water temperature; a V2 frame whose mask has bit 0 unset never causes a call.
C2_ApiOnlyWithWaterTemp ==
    \A i \in CallsTo("send_to_api") :
        /\ Handled
        /\ ~IsNone(measurements.t_water)
        /\ calls[i].sent.temperature = measurements.t_water
        /\ M.dev_eui \in DOMAIN SENSOR_MAPPINGS
        /\ calls[i].sent.sensor_id = SENSOR_MAPPINGS[M.dev_eui]
        /\ M.f_port \in {1, 2}
        /\ M.f_port = 2 => (Len(M.frm_payload) >= 1 /\ MaskHas(M.frm_payload[1], 0))

\* a V2 message with a water temperature has reached the API
C2_Witness ==
    /\ Handled
    /\ M.f_port = 2
    /\ M.dev_eui = MappedEui2
    /\ CallsTo("send_to_api") # {}

\* C3: a well-formed uplink none of whose gateway reports has both RSSI and
\* SNR raises nothing: the summary is all unset and the message goes on
\* through the fport filter, decode, mapping and sinks.
C3_EmptySummaryContinues ==
    (Handled /\ WellFormedUplink(M) /\ QualifyingIndices(M) = {})
    => /\ exception = ""
       /\ running
       /\ summary = NoSummary
       /\ outcome \in {"unsupported_fport", "decode_error", "unmapped_sensor",
                       "fanned_out"}

\* C4: whatever happened to a message, the worker loop is still running
\* afterwards and SENSOR_MAPPINGS is what it was at start-up.
C4_FailuresAreLocal ==
    /\ Handled => running
    /\ SENSOR_MAPPINGS = ConfiguredMappings

\* C5: a message whose fport is not 1 or 2 is dropped without an error: no
\* decode is attempted and no sink is called.
C5_UnsupportedFportDropped ==
    (Handled /\ M.keys = CurrentKeys /\ M.f_port \notin {1, 2})
    => /\ ~decodeAttempted
       /\ calls = <<>>
       /\ exception = ""
       /\ outcome \in {"not_uplink", "unsupported_fport"}

\* C6: a message whose DevEUI is not in SENSOR_MAPPINGS is dropped without an
\* error and reaches neither sink, even when its payload decodes with a water
\* temperature.
C6_UnmappedSensorDropped ==
    (/\ Handled
     /\ M.keys = CurrentKeys
     /\ PayloadDecodes(M)
     /\ M.dev_eui \notin DOMAIN SENSOR_MAPPINGS)
    => /\ calls = <<>>
       /\ exception = ""
       /\ outcome \in {"not_uplink", "unsupported_fport", "unmapped_sensor"}

\* C7: a V2 payload with a mask in 0..15 and fewer data bytes than the mask
\* needs is a decode failure of that message alone: the message is dropped,
\* no sink is called and no reading is populated.
C7_TruncatedV2IsDecodeFailure ==
    (/\ Handled
     /\ WellFormedUplink(M)
     /\ M.f_port = 2
     /\ Len(M.frm_payload) >= 1
     /\ M.frm_payload[1] \in 0..15
     /\ Len(M.frm_payload) - 1 < NeedBytes(M.frm_payload[1]))
    => /\ outcome = "decode_error"
       /\ running
       /\ calls = <<>>
       /\ measurements = Measurements

\* C8: when a V2 payload with mask m in 0..15 and exactly the data bytes m
\* needs is decoded, the Measurement holds exactly the fields whose bit is set
\* in m, each read from the bit stream in the order water temperature,
\* enclosure temperature, humidity, voltage with widths 12, 16, 16, 12; the
\* other fields are unset.
C8_V2FieldsFollowMask ==
    (/\ Handled
     /\ decodeAttempted
     /\ M.f_port = 2
     /\ Len(M.frm_payload) >= 1
     /\ M.frm_payload[1] \in 0..15
     /\ Len(M.frm_payload) - 1 = NeedBytes(M.frm_payload[1]))
    => /\ outcome # "decode_error"
       /\ exception # "IndexError"
       /\ measurements = ExpectedV2(M.frm_payload[1], Tail(M.frm_payload))

\* a frame with water temperature and humidity but no enclosure temperature
\* was decoded, and the two readings differ
C8_Witness ==
    /\ Handled
    /\ decodeAttempted
    /\ M.f_port = 2
    /\ Len(M.frm_payload) >= 1
    /\ M.frm_payload[1] = 5
    /\ Len(M.frm_payload) - 1 = NeedBytes(5)
    /\ ~IsNone(measurements.t_water)
    /\ IsNone(measurements.t_inside)
    /\ ~IsNone(measurements.rh_inside)
    /\ Val(measurements.rh_inside).num # 100 * Val(measurements.t_water).num

\* C9: a V1 payload is decoded only when it is exactly 16 bytes long, and
\* then all four readings are present; with any other length the message is
\* dropped as a decode failure and no sink is called.
C9_V1NeedsSixteenBytes ==
    (Handled /\ WellFormedUplink(M) /\ M.f_port = 1)
    => IF Len(M.frm_payload) = 16
       THEN /\ ~IsNone(measurements.t_water)
            /\ ~IsNone(measurements.t_inside)
            /\ ~IsNone(measurements.rh_inside)
            /\ ~IsNone(measurements.v_supply)
       ELSE /\ outcome = "decode_error"
            /\ running
            /\ calls = <<>>
            /\ measurements = Measurements

\* gateway aggregation ran for the message: it is an uplink carrying
\* everything handle_message reads before line 193
Aggregated ==
    /\ Handled
    /\ EndsWithUp(M.topic)
    /\ (CurrentKeys \ {"frm_payload"}) \subseteq M.keys

\* C10: the best gateway is the first report, in the original order, among
\* the qualifying reports of highest RSSI (SNR plays no part); max_rssi and
\* max_snr are the largest RSSI and the largest SNR of the qualifying
\* reports, each on its own.
C10_BestGatewayFirstOfMaxRssi ==
    (Aggregated /\ QualifyingIndices(M) # {})
    => LET rx == M.rx_metadata
           Q == QualifyingIndices(M)
       IN  /\ \E b \in Q :
                /\ summary.best_gateway_id = <<rx[b].gateway_id>>
                /\ \A j \in Q : Val(rx[j].rssi) <= Val(rx[b].rssi)
                /\ \A j \in Q : j < b => Val(rx[j].rssi) < Val(rx[b].rssi)
           /\ \E r \in Q :
                /\ summary.max_rssi = <<Val(rx[r].rssi)>>
                /\ \A j \in Q : Val(rx[j].rssi) <= Val(rx[r].rssi)
           /\ \E r \in Q :
                /\ summary.max_snr = <<Val(rx[r].snr)>>
                /\ \A j \in Q : Val(rx[j].snr) <= Val(rx[r].snr)

\* two qualifying reports tie on the highest RSSI, the later one has the
\* better SNR, the earlier one is the best gateway and max_snr is not its SNR
C10_Witness ==
    /\ Aggregated
    /\ \E i, j \in QualifyingIndices(M) :
         LET rx == M.rx_metadata
         IN  /\ i < j
             /\ Val(rx[i].rssi) = Val(rx[j].rssi)
             /\ \A k \in QualifyingIndices(M) : Val(rx[k].rssi) <= Val(rx[i].rssi)
             /\ Val(rx[j].snr) > Val(rx[i].snr)
             /\ summary.best_gateway_id = <<rx[i].gateway_id>>
             /\ summary.max_snr = <<Val(rx[j].snr)>>

\* C11: when the Temperature API call of a message fails (a status other than
\* 201, or a request that raises), exactly one POST was made for the message,
\* the metrics write of the same message is still made, and the worker goes on
\* to later messages unless the metrics write itself fails.
C11_ApiFailureLeavesMetricsWrite ==
    (\E i \in CallsTo("send_to_api") : calls[i].result # "201")
    => /\ Cardinality(CallsTo("send_to_api")) = 1
       /\ Cardinality(CallsTo("log_to_influxdb")) = 1
       /\ (\A j \in CallsTo("log_to_influxdb") : calls[j].result = "ok")
            => running

\* C12: a message whose topic does not end in "/up" is dropped silently,
\* whatever its envelope holds: nothing is raised and no sink is called.
C12_NotUplinkSilentlyDropped ==
    (Handled /\ ~EndsWithUp(M.topic))
    => /\ outcome = "not_uplink"
       /\ exception = ""
       /\ running
       /\ calls = <<>>

\* the optional radio parameters of an uplink
RadioKeys == {"spreading_factor", "bandwidth", "frequency"}

\* C13: an uplink that lacks one optional radio parameter (spreading factor,
\* bandwidth or frequency) raises nothing for that: it is filtered, decoded
\* and fanned out like a complete uplink.
C13_MissingRadioParameterDegrades ==
    (/\ Handled
     /\ EndsWithUp(M.topic)
     /\ \E k \in RadioKeys : M.keys = CurrentKeys \ {k}
     /\ QualifyingIndices(M) # {})
    => /\ exception # "KeyError"
       /\ outcome \in {"unsupported_fport", "decode_error", "unmapped_sensor",
                       "fanned_out", "raised"}
       /\ M.f_port \in {1, 2} => decodeAttempted

\* C14: an uplink in the legacy shape (dev_id, hardware_serial, payload_raw,
\* metadata) is recognised by its keys and taken through the fport filter,
\* decode, mapping and fan-out like one in the current shape.
C14_LegacyShapeProcessed ==
    (/\ Handled
     /\ EndsWithUp(M.topic)
     /\ M.keys = LegacyKeys
     /\ QualifyingIndices(M) # {})
    => /\ exception # "KeyError"
       /\ outcome \in {"unsupported_fport", "decode_error", "unmapped_sensor",
                       "fanned_out", "raised"}
       /\ M.f_port \in {1, 2} => decodeAttempted

\* C15: max_rssi is unset exactly when no gateway report has both RSSI and
\* SNR, and so is max_snr; when set, each is a value of a report that has
\* both, so a report lacking either value contributes to neither maximum.
C15_MaximaUnsetIffNoQualifying ==
    Aggregated
    => LET rx == M.rx_metadata
           Q == QualifyingIndices(M)
       IN  /\ IsNone(summary.max_rssi) <=> Q = {}
           /\ IsNone(summary.max_snr) <=> Q = {}
           /\ ~IsNone(summary.max_rssi)
                => \E i \in Q : Val(rx[i].rssi) = Val(summary.max_rssi)
           /\ ~IsNone(summary.max_snr)
                => \E i \in Q : Val(rx[i].snr) = Val(summary.max_snr)

\* a report without SNR carries an RSSI above max_rssi and a report without
\* RSSI carries an SNR above max_snr
C15_Witness ==
    /\ Aggregated
    /\ ~IsNone(summary.max_rssi)
    /\ ~IsNone(summary.max_snr)
    /\ \E i \in DOMAIN M.rx_metadata :
         /\ IsNone(M.rx_metadata[i].snr)
         /\ ~IsNone(M.rx_metadata[i].rssi)
         /\ Val(M.rx_metadata[i].rssi) > Val(summary.max_rssi)
    /\ \E j \in DOMAIN M.rx_metadata :
         /\ IsNone(M.rx_metadata[j].rssi)
         /\ ~IsNone(M.rx_metadata[j].snr)
         /\ Val(M.rx_metadata[j].snr) > Val(summary.max_snr)

\* the frame carries the single V2 field of this mask and was decoded
SingleField(mask) ==
    /\ Handled
    /\ decodeAttempted
    /\ M.f_port = 2
    /\ Len(M.frm_payload) = 3
    /\ M.frm_payload[1] = mask

\* C16: a V2 reading is the affine image of its raw unsigned integer: water
\* temperature raw/16 and supply voltage (raw + 2000)/1000 for raw in 0..4095,
\* enclosure temperature -45 + 175*raw/65536 and humidity 100*raw/65536 for
\* 16-bit raw; a V1 reading is the float32 of the frame, untransformed.
C16_NormalizationIsAffine ==
    LET data == Tail(M.frm_payload)
    IN  /\ SingleField(1)
             => /\ ~IsNone(measurements.t_water)
                /\ Val(measurements.t_water).num * 16
                     = U12(data, 0) * Val(measurements.t_water).den
        /\ SingleField(8)
             => /\ ~IsNone(measurements.v_supply)
                /\ Val(measurements.v_supply).num * 1000
                     = (U12(data, 0) + 2000) * Val(measurements.v_supply).den
        /\ SingleField(2)
             => /\ ~IsNone(measurements.t_inside)
                /\ Val(measurements.t_inside).den = 65536
                /\ Val(measurements.t_inside).num
                     = 175 * U16(data, 0) - 45 * 65536
        /\ SingleField(4)
             => /\ ~IsNone(measurements.rh_inside)
                /\ Val(measurements.rh_inside).den = 65536
                /\ Val(measurements.rh_inside).num = 100 * U16(data, 0)
        /\ (Handled /\ decodeAttempted /\ M.f_port = 1 /\ Len(M.frm_payload) = 16)
             => LET F(k) == <<[repr |-> "float32",
                               bits |-> <<M.frm_payload[4 * k + 4],
                                          M.frm_payload[4 * k + 3],
                                          M.frm_payload[4 * k + 2],
                                          M.frm_payload[4 * k + 1]>>]>>
                IN  measurements = [t_water |-> F(0), t_inside |-> F(1),
                                    rh_inside |-> F(2), v_supply |-> F(3)]

\* the raw water temperature 4095 came out as 255.9375 degrees
C16_Witness ==
    /\ SingleField(1)
    /\ U12(Tail(M.frm_payload), 0) = 4095
    /\ outcome = "fanned_out"
    /\ Val(measurements.t_water).num * 10000
         = 2559375 * Val(measurements.t_water).den

\* C17: nothing of an earlier message survives: the sensor mapping is the one
\* configured at start-up, between two messages every per-call value is back
\* at its initial value, and what a call did (outcome, exception, summary,
\* measurements, sink calls and their arguments) is what handle_message does
\* for that message and the configured mapping alone, whatever was handled
\* before; the answers of the two back ends are the environment's.
C17_NoStatePersistsAcrossMessages ==
    /\ SENSOR_MAPPINGS = ConfiguredMappings
    /\ IsNone(msg)
         => /\ outcome = "none"
            /\ exception = ""
            /\ summary = NoSummary
            /\ measurements = Measurements
            /\ ~decodeAttempted
            /\ calls = <<>>
    /\ Handled
         => \E apiRes \in ApiResults, dbRes \in InfluxResults :
              Result(outcome, exception, summary, measurements,
                     decodeAttempted, calls)
                = HandleMessage(M, ConfiguredMappings, apiRes, dbRes)

\* a message is fanned out to both sinks after earlier messages were handled
C17_Witness ==
    /\ served
    /\ Handled
    /\ outcome = "fanned_out"
    /\ Len(calls) = 2
    /\ SENSOR_MAPPINGS = ConfiguredMappings

\* outcomes in which the message was dropped or its decoding failed
DroppedOrFailed ==
    {"not_uplink", "unsupported_fport", "decode_error", "unmapped_sensor"}

\* C18: for one message there is at most one send_to_api call and at most one
\* log_to_influxdb call, every send_to_api call comes before every
\* log_to_influxdb call, a message that was dropped or failed to decode, or
\* whose handling raised before the fan-out, has no sink call at all, and no
\* metrics write follows an API call that raised.
C18_SinkCallsOrderedAndBounded ==
    /\ Cardinality(CallsTo("send_to_api")) <= 1
    /\ Cardinality(CallsTo("log_to_influxdb")) <= 1
    /\ \A i \in CallsTo("send_to_api"), j \in CallsTo("log_to_influxdb") : i < j
    /\ \A i \in 1..Len(calls) : calls[i].sink \in {"send_to_api", "log_to_influxdb"}
    /\ outcome \in DroppedOrFailed => calls = <<>>
    /\ exception \in {"KeyError", "IndexError"} => calls = <<>>
    /\ exception = "ConnectionError" => CallsTo("log_to_influxdb") = {}

\* both sinks were called for one message, the API first
C18_Witness ==
    /\ Handled
    /\ Len(calls) = 2
    /\ calls[1].sink = "send_to_api"
    /\ calls[2].sink = "log_to_influxdb"

\* the message is a complete V2 uplink whose payload has more data bytes
\* after the mask byte than the low four mask bits call for
SurplusV2 ==
    /\ Handled
    /\ WellFormedUplink(M)
    /\ M.f_port = 2
    /\ Len(M.frm_payload) >= 1
    /\ Len(M.frm_payload) - 1 > NeedBytes(M.frm_payload[1] % 16)

\* C19: a V2 uplink with surplus data bytes is decoded, not rejected: its
\* Measurement is the one the low four mask bits and the leading data bytes
\* stand for, whatever the trailing bytes and the high four mask bits are,
\* and the message goes on to the mapping lookup and the fan-out.
C19_SurplusV2BytesAccepted ==
    SurplusV2
    => /\ decodeAttempted
       /\ measurements = ExpectedV2(M.frm_payload[1] % 16, Tail(M.frm_payload))
       /\ \/ outcome \in {"unmapped_sensor", "fanned_out"}
          \/ outcome = "raised" /\ exception \in {"ConnectionError", "InfluxDBError"}

====
